---- MODULE Spec2Model ----
(***************************************************************************)
(* One run of app.py (the Streamlit script is re-run top to bottom on      *)
(* every widget change): dataset selection, prep, year filter, empty       *)
(* check, split_to_iso over the Provinces column, explode, groupby/sum,    *)
(* the iso_to_name lookup with its sanity check, and the plot.             *)
(*                                                                         *)
(* A string is a sequence of symbols.  A symbol is "," (a comma), " " (one *)
(* whitespace character) or a word: a maximal run of other characters.     *)
(* No word of the alphabets used below is the concatenation of other       *)
(* words, so a token is a key of region_map exactly when it is a single    *)
(* word that is a key.                                                     *)
(* Losses are integers in tenths of a billion.                             *)
(***************************************************************************)
EXTENDS Integers, Sequences, FiniteSets

VARIABLES all_dfs, choices, df_list, pc, i, out, df, years, keep, k, iso,
          df_exp, prov_sum, outcome, err

vars == <<all_dfs, choices, df_list, pc, i, out, df, years, keep, k, iso,
          df_exp, prov_sum, outcome, err>>

-----------------------------------------------------------------------------
(* Bounds of the model *)

MaxSources == 2

MaxRows == 2

MaxLen == 3

-----------------------------------------------------------------------------
(* Values *)

\* pandas' missing value in a numeric column (Year)
NaN == -1

\* pandas' missing value in an object column (ISO, prov_name)
NaNStr == "NaN"

COMMA == ","

SPACE == " "

RequiredCols == <<"Provinces", "Event_year", "Total_losses_in_billions">>

\* the keys of the dict load_all_csvs() returns (three of them commented out)
DatasetNames == <<"FL Losses", "Losses 2016-2020", "Major Event 2021",
                  "Special Report 2022">>

\* region_map with the codes of one misspelling in another order
region_map_respelled ==
    [t \in {"ON", "QC", "BC", "AB", "SK", "MB", "NB", "NS", "PE", "NL", "YT",
            "NT", "NU", "Maritimes", "Priaries", "Prairies", "Priaires",
            "Praries", "Praires"} |->
        CASE t = "ON" -> <<"CA-ON">>
          [] t = "QC" -> <<"CA-QC">>
          [] t = "BC" -> <<"CA-BC">>
          [] t = "AB" -> <<"CA-AB">>
          [] t = "SK" -> <<"CA-SK">>
          [] t = "MB" -> <<"CA-MB">>
          [] t = "NB" -> <<"CA-NB">>
          [] t = "NS" -> <<"CA-NS">>
          [] t = "PE" -> <<"CA-PE">>
          [] t = "NL" -> <<"CA-NL">>
          [] t = "YT" -> <<"CA-YT">>
          [] t = "NT" -> <<"CA-NT">>
          [] t = "NU" -> <<"CA-NU">>
          [] t = "Maritimes" -> <<"CA-NB", "CA-NS", "CA-PE">>
          [] t = "Praires" -> <<"CA-AB", "CA-MB", "CA-SK">>
          [] OTHER -> <<"CA-AB", "CA-SK", "CA-MB">>]

region_map ==
    [t \in {"ON", "QC", "BC", "AB", "SK", "MB", "NB", "NS", "PE", "NL", "YT",
            "NT", "NU", "Maritimes", "Priaries", "Prairies", "Priaires",
            "Praries", "Praires"} |->
        CASE t = "ON" -> <<"CA-ON">>
          [] t = "QC" -> <<"CA-QC">>
          [] t = "BC" -> <<"CA-BC">>
          [] t = "AB" -> <<"CA-AB">>
          [] t = "SK" -> <<"CA-SK">>
          [] t = "MB" -> <<"CA-MB">>
          [] t = "NB" -> <<"CA-NB">>
          [] t = "NS" -> <<"CA-NS">>
          [] t = "PE" -> <<"CA-PE">>
          [] t = "NL" -> <<"CA-NL">>
          [] t = "YT" -> <<"CA-YT">>
          [] t = "NT" -> <<"CA-NT">>
          [] t = "NU" -> <<"CA-NU">>
          [] t = "Maritimes" -> <<"CA-NB", "CA-NS", "CA-PE">>
          [] t = "Priaries" -> <<"CA-AB", "CA-SK", "CA-MB">>
          [] t = "Prairies" -> <<"CA-AB", "CA-SK", "CA-MB">>
          [] t = "Priaires" -> <<"CA-AB", "CA-SK", "CA-MB">>
          [] t = "Praries" -> <<"CA-AB", "CA-SK", "CA-MB">>
          [] t = "Praires" -> <<"CA-AB", "CA-SK", "CA-MB">>]

\* iso_to_name without the entry of one territory
iso_to_name_short ==
    [c \in {"CA-ON", "CA-QC", "CA-NS", "CA-NB", "CA-MB", "CA-BC", "CA-PE",
            "CA-SK", "CA-AB", "CA-NL", "CA-NT", "CA-YT"} |-> "name"]

iso_to_name ==
    [c \in {"CA-ON", "CA-QC", "CA-NS", "CA-NB", "CA-MB", "CA-BC", "CA-PE",
            "CA-SK", "CA-AB", "CA-NL", "CA-NT", "CA-YT", "CA-NU"} |->
        CASE c = "CA-ON" -> "Ontario"
          [] c = "CA-QC" -> "Quebec"
          [] c = "CA-NS" -> "Nova Scotia"
          [] c = "CA-NB" -> "New Brunswick"
          [] c = "CA-MB" -> "Manitoba"
          [] c = "CA-BC" -> "British Columbia"
          [] c = "CA-PE" -> "Prince Edward Island"
          [] c = "CA-SK" -> "Saskatchewan"
          [] c = "CA-AB" -> "Alberta"
          [] c = "CA-NL" -> "Newfoundland and Labrador"
          [] c = "CA-NT" -> "Northwest Territories"
          [] c = "CA-YT" -> "Yukon"
          [] c = "CA-NU" -> "Nunavut"]

-----------------------------------------------------------------------------
(* Helpers on sequences *)

Range(s) == {s[n] : n \in DOMAIN s}

Min(a, b) == IF a < b THEN a ELSE b

RECURSIVE FlattenFrom(_, _)
FlattenFrom(ss, n) ==
    IF n > Len(ss) THEN <<>> ELSE ss[n] \o FlattenFrom(ss, n + 1)

\* the concatenation of a sequence of sequences
Flatten(ss) == FlattenFrom(ss, 1)

RECURSIVE SumFrom(_, _)
SumFrom(s, n) == IF n > Len(s) THEN 0 ELSE s[n] + SumFrom(s, n + 1)

\* the sum of a sequence of numbers
SumSeq(s) == SumFrom(s, 1)

RECURSIVE SelectFrom(_, _, _)
SelectFrom(s, S, n) ==
    IF n > Len(s) THEN <<>>
    ELSE (IF s[n] \in S THEN <<n>> ELSE <<>>) \o SelectFrom(s, S, n + 1)

\* the indices n of s, ascending, for which s[n] is in the set S
SelectIdx(s, S) == SelectFrom(s, S, 1)

\* sorted(...) of a set of integers
RECURSIVE sorted(_)
sorted(S) ==
    IF S = {} THEN <<>>
    ELSE LET m == CHOOSE x \in S : \A y \in S : x <= y
         IN <<m>> \o sorted(S \ {m})

-----------------------------------------------------------------------------
(* str.split(",") and str.strip() *)

RECURSIVE split(_)
split(s) ==
    IF COMMA \notin Range(s) THEN <<s>>
    ELSE LET j == CHOOSE n \in DOMAIN s :
                     s[n] = COMMA /\ \A m \in 1..(n - 1) : s[m] # COMMA
         IN <<SubSeq(s, 1, j - 1)>> \o split(SubSeq(s, j + 1, Len(s)))

RECURSIVE lstrip(_)
lstrip(p) == IF p # <<>> /\ Head(p) = SPACE THEN lstrip(Tail(p)) ELSE p

RECURSIVE rstrip(_)
rstrip(p) ==
    IF p # <<>> /\ p[Len(p)] = SPACE THEN rstrip(SubSeq(p, 1, Len(p) - 1))
    ELSE p

strip(p) == rstrip(lstrip(p))

\* parts = [p.strip() for p in str(s).split(",")]
parts(s) == LET raw == split(s) IN [n \in DOMAIN raw |-> strip(raw[n])]

\* p in region_map
InRegionMap(p) == Len(p) = 1 /\ p[1] \in DOMAIN region_map

\* cs with only the first occurrence of each element
Dedup(cs) ==
    LET firsts == SelectIdx([n \in DOMAIN cs |->
                               \A m \in 1..(n - 1) : cs[m] # cs[n]], {TRUE})
    IN [n \in DOMAIN firsts |-> cs[firsts[n]]]

\* split_to_iso keeping each code of a row once
split_to_iso_dedup(s) ==
    LET ps == parts(s)
        bad == {n \in DOMAIN ps : ~InRegionMap(ps[n])}
    IN IF bad = {}
       THEN [ok |-> TRUE, token |-> <<>>,
             codes |-> Dedup(Flatten([n \in DOMAIN ps |-> region_map[ps[n][1]]]))]
       ELSE [ok |-> FALSE,
             token |-> ps[CHOOSE n \in bad : \A m \in bad : n <= m],
             codes |-> <<>>]

\* split_to_iso skipping the tokens that are no key
split_to_iso_lenient(s) ==
    LET ps == parts(s)
        good == SelectIdx([n \in DOMAIN ps |-> InRegionMap(ps[n])], {TRUE})
    IN [ok |-> TRUE, token |-> <<>>,
        codes |-> Flatten([n \in DOMAIN good |-> region_map[ps[good[n]][1]]])]

\* split_to_iso: the list of codes, or the first token that is no key, at
\* which the function calls st.error and st.stop
split_to_iso(s) ==
    LET ps == parts(s)
        bad == {n \in DOMAIN ps : ~InRegionMap(ps[n])}
    IN IF bad = {}
       THEN [ok |-> TRUE, token |-> <<>>,
             codes |-> Flatten([n \in DOMAIN ps |-> region_map[ps[n][1]]])]
       ELSE [ok |-> FALSE,
             token |-> ps[CHOOSE n \in bad : \A m \in bad : n <= m],
             codes |-> <<>>]

-----------------------------------------------------------------------------
(* Inputs *)

Losses == {15, 20}

\* the Provinces cells of the sample rows
ON == <<"ON">>

AB_Priaries == <<"AB", COMMA, SPACE, "Priaries">>

Maritimes == <<"Maritimes">>

XX == <<"XX">>

RawRow(p, y, l) ==
    [Provinces |-> p, Event_year |-> y, Total_losses_in_billions |-> l]

\* the rows the CSVs are made of
RawRows ==
    { RawRow(ON, 2020, 15), RawRow(ON, 2019, 20),
      RawRow(AB_Priaries, 2020, 20),
      RawRow(Maritimes, 2019, 15), RawRow(Maritimes, NaN, 20),
      RawRow(XX, 2020, 15), RawRow(XX, 2019, 20), RawRow(XX, NaN, 15) }

RowSeqs(n) == [1..n -> RawRows]

\* a CSV with all required columns and n rows
GoodSources(n) ==
    {[columns |-> Range(RequiredCols), rows |-> r] : r \in RowSeqs(n)}

\* a CSV that lacks some required column; its rows are never read
FaultySources ==
    {[columns |-> c, rows |-> <<>>] :
        c \in (SUBSET Range(RequiredCols)) \ {Range(RequiredCols)}}

\* the symbols of the strings split_to_iso is tried on
SplitAlphabet ==
    {COMMA, SPACE, "AB", "NB", "Maritimes", "Prairies", "Priaries",
     "Priaires", "Praries", "Praires", "XX"}

Strings(n) == UNION {[1..m -> SplitAlphabet] : m \in 0..n}

SplitInputs == Strings(MaxLen) \cup {<<t>> : t \in DOMAIN region_map}

RECURSIVE Catalogues(_, _)
\* the catalogues of n sources holding at most m rows in all; a source that
\* lacks a column is the last one (prep reads no source after it)
Catalogues(n, m) ==
    IF n = 0 THEN {<<>>}
    ELSE UNION { {<<s>> \o c : c \in Catalogues(n - 1, m - Len(s.rows))} :
                 s \in (IF n = 1 THEN FaultySources ELSE {}) \cup
                       UNION {GoodSources(j) : j \in 0..m} }

-----------------------------------------------------------------------------
(* State *)

NoMsg == [level |-> "none", col |-> "", source |-> "", token |-> <<>>,
          codes |-> {}]

Pristine ==
    /\ choices = <<>>
    /\ df_list = <<>>
    /\ pc = "select"
    /\ i = 1
    /\ out = <<>>
    /\ df = <<>>
    /\ years = <<>>
    /\ keep = <<>>
    /\ k = 1
    /\ iso = <<>>
    /\ df_exp = <<>>
    /\ prov_sum = <<>>
    /\ outcome = "running"
    /\ err = NoMsg

\* a catalogue of up to MaxSources CSVs holding up to MaxRows sample rows
Init ==
    /\ all_dfs \in UNION {Catalogues(n, MaxRows) :
                            n \in 1..Min(MaxSources, Len(DatasetNames))}
    /\ Pristine

\* one CSV of one row, its Provinces cell any string of up to MaxLen symbols
\* or any single key of region_map
InitSplit ==
    /\ \E s \in SplitInputs, l \in Losses :
          all_dfs = <<[columns |-> Range(RequiredCols),
                       rows |-> <<RawRow(s, 2020, l)>>]>>
    /\ Pristine

\* st.stop() after st.error / st.warning
Stop(kind, msg) ==
    /\ outcome' = kind
    /\ err' = msg
    /\ pc' = "stopped"

-----------------------------------------------------------------------------
(* 2) dataset selection, lines 30-40 *)

Select ==
    /\ pc = "select"
    /\ \E n \in 0..Len(all_dfs) :
          /\ choices' = [m \in 1..n |-> DatasetNames[m]]
          /\ IF n = 0
             THEN /\ Stop("NoSelection",
                          [NoMsg EXCEPT !.level = "warning"])
                  /\ UNCHANGED df_list
             ELSE /\ df_list' = [m \in 1..n |-> all_dfs[m]]
                  /\ pc' = "prep"
                  /\ UNCHANGED <<outcome, err>>
    /\ UNCHANGED <<all_dfs, i, out, df, years, keep, k, iso, df_exp, prov_sum>>

-----------------------------------------------------------------------------
(* 3) prep, lines 82-99 *)

\* the required columns df lacks, as positions in RequiredCols
MissingCols(d) == {n \in DOMAIN RequiredCols : RequiredCols[n] \notin d.columns}

\* the message of line 88
SchemaMsg(col) ==
    [NoMsg EXCEPT !.level = "error", !.col = col,
                  !.source = "one of your preloaded CSVs"]

\* df[[...]].rename(columns={...})
Project(d) ==
    [n \in DOMAIN d.rows |->
        [Provinces |-> d.rows[n].Provinces,
         Year |-> d.rows[n].Event_year,
         Loss |-> d.rows[n].Total_losses_in_billions]]

\* pd.concat(out, ignore_index=True): the rows in order, index 0..n-1
Concat(frames) ==
    LET rows == Flatten(frames)
    IN [n \in DOMAIN rows |->
           [idx |-> n - 1, Provinces |-> rows[n].Provinces,
            Year |-> rows[n].Year, Loss |-> rows[n].Loss]]

\* one iteration of "for df in df_list"
PrepSource ==
    /\ pc = "prep"
    /\ i <= Len(df_list)
    /\ LET d == df_list[i]
           miss == MissingCols(d)
       IN IF miss # {}
          THEN /\ Stop("SchemaError",
                       SchemaMsg(RequiredCols[CHOOSE n \in miss :
                                                 \A m \in miss : n <= m]))
               /\ UNCHANGED <<i, out>>
          ELSE /\ out' = Append(out, Project(d))
               /\ i' = i + 1
               /\ UNCHANGED <<pc, outcome, err>>
    /\ UNCHANGED <<all_dfs, choices, df_list, df, years, keep, k, iso, df_exp,
                   prov_sum>>

PrepConcat ==
    /\ pc = "prep"
    /\ i > Len(df_list)
    /\ df' = Concat(out)
    /\ pc' = "filter"
    /\ UNCHANGED <<all_dfs, choices, df_list, i, out, years, keep, k, iso,
                   df_exp, prov_sum, outcome, err>>

-----------------------------------------------------------------------------
(* 4) year filter, lines 102-109 *)

\* sorted(df["Year"].dropna().unique().astype(int))
YearsOf(d) == sorted({d[n].Year : n \in DOMAIN d} \ {NaN})

\* a filter that keeps every row
IsInAll(d, ks) == d

\* df[df["Year"].isin(keep)]
IsIn(d, ks) ==
    LET sel == SelectIdx([n \in DOMAIN d |-> d[n].Year], Range(ks))
    IN [n \in DOMAIN sel |-> d[sel[n]]]

YearFilter ==
    /\ pc = "filter"
    /\ \E ticked \in SUBSET Range(YearsOf(df)) :
          LET ys == YearsOf(df)
              kp == LET sel == SelectIdx(ys, ticked)
                    IN [n \in DOMAIN sel |-> ys[sel[n]]]
          IN /\ years' = ys
             /\ keep' = kp
             /\ df' = IsIn(df, kp)
    /\ pc' = "empty_check"
    /\ UNCHANGED <<all_dfs, choices, df_list, i, out, k, iso, df_exp, prov_sum,
                   outcome, err>>

\* the script without lines 107-109
EmptyCheckSkipped ==
    /\ pc = "empty_check"
    /\ pc' = "normalize"
    /\ UNCHANGED <<all_dfs, choices, df_list, i, out, df, years, keep, k, iso,
                   df_exp, prov_sum, outcome, err>>

EmptyCheck ==
    /\ pc = "empty_check"
    /\ IF df = <<>>
       THEN Stop("NoData", [NoMsg EXCEPT !.level = "warning"])
       ELSE /\ pc' = "normalize"
            /\ UNCHANGED <<outcome, err>>
    /\ UNCHANGED <<all_dfs, choices, df_list, i, out, df, years, keep, k, iso,
                   df_exp, prov_sum>>

-----------------------------------------------------------------------------
(* 5) region normalisation, lines 127-139 *)

\* the message of line 134
RegionMsg(p) == [NoMsg EXCEPT !.level = "error", !.token = p]

\* df["Provinces"].apply(split_to_iso), one row per step
ApplySplit ==
    /\ pc = "normalize"
    /\ k <= Len(df)
    /\ LET r == split_to_iso(df[k].Provinces)
       IN IF r.ok
          THEN /\ iso' = Append(iso, r.codes)
               /\ k' = k + 1
               /\ UNCHANGED <<pc, outcome, err>>
          ELSE /\ Stop("UnknownRegionError", RegionMsg(r.token))
               /\ UNCHANGED <<k, iso>>
    /\ UNCHANGED <<all_dfs, choices, df_list, i, out, df, years, keep, df_exp,
                   prov_sum>>

\* df.explode("ISO") of one row: one record per list element, the other
\* columns and the index repeated; an empty list gives one record with NaN
ExplodeRow(r, codes) ==
    IF codes = <<>>
    THEN <<[idx |-> r.idx, Provinces |-> r.Provinces, Year |-> r.Year,
            Loss |-> r.Loss, ISO |-> NaNStr]>>
    ELSE [n \in DOMAIN codes |->
             [idx |-> r.idx, Provinces |-> r.Provinces, Year |-> r.Year,
              Loss |-> r.Loss, ISO |-> codes[n]]]

\* explode dropping the repeated codes of a row
explode_unique(d, col) ==
    Flatten([n \in DOMAIN d |-> ExplodeRow(d[n], Dedup(col[n]))])

explode(d, col) == Flatten([n \in DOMAIN d |-> ExplodeRow(d[n], col[n])])

Explode ==
    /\ pc = "normalize"
    /\ k > Len(df)
    /\ df_exp' = explode(df, iso)
    /\ pc' = "aggregate"
    /\ UNCHANGED <<all_dfs, choices, df_list, i, out, df, years, keep, k, iso,
                   prov_sum, outcome, err>>

-----------------------------------------------------------------------------
(* 5) aggregate, lines 142-146 *)

\* the order groupby sorts the known group keys in
KeyOrder == <<"CA-AB", "CA-BC", "CA-MB", "CA-NB", "CA-NL", "CA-NS", "CA-NT",
              "CA-NU", "CA-ON", "CA-PE", "CA-QC", "CA-SK", "CA-YT">>

RECURSIVE AnyOrder(_)
\* the elements of a set in some fixed order
AnyOrder(S) ==
    IF S = {} THEN <<>>
    ELSE LET x == CHOOSE y \in S : TRUE IN <<x>> \o AnyOrder(S \ {x})

\* the group keys of a frame: the values of its ISO column, the missing
\* value dropped
GroupKeys(d) ==
    LET ks == {d[n].ISO : n \in DOMAIN d} \ {NaNStr}
        known == SelectIdx(KeyOrder, ks)
    IN [n \in DOMAIN known |-> KeyOrder[known[n]]]
       \o AnyOrder(ks \ Range(KeyOrder))

\* the rows of one group, in order
Group(d, key) ==
    LET sel == SelectIdx([n \in DOMAIN d |-> d[n].ISO], {key})
    IN [n \in DOMAIN sel |-> d[sel[n]]]

\* a summary with one row for each of the 13 codes, zero where none occurs
groupby_sum_zero_filled(d) ==
    [n \in DOMAIN KeyOrder |->
        LET g == Group(d, KeyOrder[n])
        IN [ISO |-> KeyOrder[n],
            TotalLoss |-> SumSeq([m \in DOMAIN g |-> g[m].Loss]),
            prov_name |-> ""]]

\* groupby("ISO", as_index=False).agg(TotalLoss=("Loss","sum")): one row per
\* key that occurs
groupby_sum(d) ==
    LET keys == GroupKeys(d)
    IN [n \in DOMAIN keys |->
           LET g == Group(d, keys[n])
           IN [ISO |-> keys[n],
               TotalLoss |-> SumSeq([m \in DOMAIN g |-> g[m].Loss]),
               prov_name |-> ""]]

Aggregate ==
    /\ pc = "aggregate"
    /\ prov_sum' = groupby_sum(df_exp)
    /\ pc' = "names"
    /\ UNCHANGED <<all_dfs, choices, df_list, i, out, df, years, keep, k, iso,
                   df_exp, outcome, err>>

-----------------------------------------------------------------------------
(* map CA-XX -> full name and the sanity check, lines 169-175 *)

\* prov_sum["ISO"].map(iso_to_name)
MapName(c) == IF c \in DOMAIN iso_to_name THEN iso_to_name[c] ELSE NaNStr

\* the message of line 174
MappingMsg(cs) == [NoMsg EXCEPT !.level = "error", !.codes = cs]

NameResolver ==
    /\ pc = "names"
    /\ LET named == [n \in DOMAIN prov_sum |->
                        [prov_sum[n] EXCEPT !.prov_name = MapName(prov_sum[n].ISO)]]
           missing == {named[n].ISO : n \in {m \in DOMAIN named :
                                               named[m].prov_name = NaNStr}}
       IN /\ prov_sum' = named
          /\ IF missing # {}
             THEN Stop("UnmappedCodeError", MappingMsg(missing))
             ELSE /\ pc' = "render"
                  /\ UNCHANGED <<outcome, err>>
    /\ UNCHANGED <<all_dfs, choices, df_list, i, out, df, years, keep, k, iso,
                   df_exp>>

-----------------------------------------------------------------------------
(* 6), 7) GeoJSON and plot, lines 178-207: the download either succeeds or *)
(* raises                                                                  *)

Render ==
    /\ pc = "render"
    /\ \E fetched \in BOOLEAN :
          IF fetched THEN Stop("Rendered", NoMsg)
          ELSE Stop("FetchError", [NoMsg EXCEPT !.level = "exception"])
    /\ UNCHANGED <<all_dfs, choices, df_list, i, out, df, years, keep, k, iso,
                   df_exp, prov_sum>>

-----------------------------------------------------------------------------

Next ==
    \/ Select
    \/ PrepSource
    \/ PrepConcat
    \/ YearFilter
    \/ EmptyCheck
    \/ ApplySplit
    \/ Explode
    \/ Aggregate
    \/ NameResolver
    \/ Render

Spec == Init /\ [][Next]_vars

SpecSplit == InitSplit /\ [][Next]_vars

-----------------------------------------------------------------------------
(* The variant of the aggregate that also counts the events and derives    *)
(* the severity.  A severity is the exact quotient num / den.              *)

groupby_agg(d) ==
    LET keys == GroupKeys(d)
    IN [n \in DOMAIN keys |->
           LET g == Group(d, keys[n])
               total == SumSeq([m \in DOMAIN g |-> g[m].Loss])
           IN [ISO |-> keys[n], TotalLoss |-> total, EventCount |-> Len(g),
               Severity |-> [num |-> total, den |-> Len(g)]]]

-----------------------------------------------------------------------------
(* Stages reached *)

\* prep returned the unified table
Loaded ==
    \/ pc \in {"filter", "empty_check", "normalize", "aggregate", "names",
               "render"}
    \/ outcome \in {"NoData", "UnknownRegionError", "UnmappedCodeError",
                    "Rendered", "FetchError"}

\* the year filter ran: df is the filtered table
Filtered == Loaded /\ pc # "filter"

\* df_exp was produced
Normalized ==
    \/ pc \in {"aggregate", "names", "render"}
    \/ outcome \in {"UnmappedCodeError", "Rendered", "FetchError"}

\* prov_sum was produced
Aggregated ==
    \/ pc \in {"names", "render"}
    \/ outcome \in {"UnmappedCodeError", "Rendered", "FetchError"}

\* the table prep returns
Unified == Concat(out)

\* the positions of the tokens of a Provinces cell that are no key
UnknownTokens(s) == {n \in DOMAIN parts(s) : ~InRegionMap(parts(s)[n])}

\* the [Code, Year, Loss] records of an exploded frame, with the row index
Expanded(d) ==
    [n \in DOMAIN d |->
        [idx |-> d[n].idx, Year |-> d[n].Year, Loss |-> d[n].Loss,
         ISO |-> d[n].ISO]]

\* the positions of the records of an exploded frame that come from row idx
OfRow(d, idx) == SelectIdx([n \in DOMAIN d |-> d[n].idx], {idx})

-----------------------------------------------------------------------------
(* C1 *)

\* C1: when a selected source lacks a required column, no row of any source
\* (the sources before the faulty one included) is processed, no unified
\* table, expanded record or summary is produced, and the run ends in
\* SchemaError.
C1_NoRowProcessedBeforeSchemaError ==
    (pc # "select" /\ \E n \in DOMAIN df_list : MissingCols(df_list[n]) # {})
    => /\ Flatten(out) = <<>>
       /\ df = <<>> /\ df_exp = <<>> /\ prov_sum = <<>>
       /\ pc = "stopped" => outcome = "SchemaError"

-----------------------------------------------------------------------------
(* C2 *)

\* C2: the SchemaError names the faulty source and a column that source
\* really lacks.
C2_SchemaErrorNamesSourceAndColumn ==
    outcome = "SchemaError"
    => /\ err.source = choices[i]
       /\ \E n \in MissingCols(df_list[i]) : err.col = RequiredCols[n]

-----------------------------------------------------------------------------
(* C3 *)

\* C3: a token of a filtered row that is no key of region_map ends the run in
\* UnknownRegionError naming the first such token of the first such row;
\* the aggregation never runs and neither expanded records nor a summary
\* exist, whatever rows were normalized before.
C3_UnknownTokenAborts ==
    /\ outcome = "UnknownRegionError"
       => /\ k \in DOMAIN df
          /\ err.level = "error"
          /\ LET ps == parts(df[k].Provinces)
             IN \E n \in DOMAIN ps :
                   /\ err.token = ps[n]
                   /\ ~InRegionMap(ps[n])
                   /\ \A m \in 1..(n - 1) : InRegionMap(ps[m])
          /\ \A m \in 1..(k - 1) : UnknownTokens(df[m].Provinces) = {}
          /\ Len(iso) = k - 1
    /\ (Filtered /\ \E n \in DOMAIN df : UnknownTokens(df[n].Provinces) # {})
       => /\ pc \in {"empty_check", "normalize", "stopped"}
          /\ pc = "stopped" => outcome = "UnknownRegionError"
          /\ df_exp = <<>> /\ prov_sum = <<>>
          /\ \A n \in 1..Min(k, Len(df)) :
                UnknownTokens(df[n].Provinces) # {} => k <= n

\* C3 witness: the run stopped at an unknown token after normalizing a row
C3_Witness ==
    /\ outcome = "UnknownRegionError"
    /\ k > 1
    /\ iso # <<>>

-----------------------------------------------------------------------------
(* C4 *)

\* C4: when no year is selected (no row's Year is among the selected years)
\* the filtered table is empty and the run stops in the "no data" state with
\* a warning, not an error; nothing of the normalizer, the aggregator, the
\* name resolver or the renderer has run.
C4_EmptySelectionIsNoData ==
    (Filtered /\ \A n \in DOMAIN Unified : Unified[n].Year \notin Range(keep))
    => /\ df = <<>>
       /\ pc \in {"empty_check", "stopped"}
       /\ outcome \in {"running", "NoData"}
       /\ pc = "stopped" => (outcome = "NoData" /\ err.level = "warning")
       /\ k = 1 /\ iso = <<>> /\ df_exp = <<>> /\ prov_sum = <<>>

\* C4 witness: rows were loaded, no year was ticked, the run reported no data
C4_Witness ==
    /\ outcome = "NoData"
    /\ keep = <<>>
    /\ years # <<>>
    /\ Unified # <<>>

-----------------------------------------------------------------------------
(* C5 *)

\* C5: every filtered row yields as many expanded records as the lengths of
\* the code lists of its tokens add up to (repeated codes kept), in the
\* order of the tokens, each with the row's Year and Loss; "Maritimes"
\* yields CA-NB, CA-NS, CA-PE.
C5_FanOut ==
    Normalized =>
      /\ \A n \in DOMAIN df :
           LET ps == parts(df[n].Provinces)
               at == OfRow(df_exp, df[n].idx)
           IN /\ UnknownTokens(df[n].Provinces) = {}
              /\ Len(at) = SumSeq([m \in DOMAIN ps |-> Len(region_map[ps[m][1]])])
              /\ [m \in DOMAIN at |-> df_exp[at[m]].ISO]
                    = Flatten([m \in DOMAIN ps |-> region_map[ps[m][1]]])
              /\ \A m \in DOMAIN at :
                    /\ df_exp[at[m]].Year = df[n].Year
                    /\ df_exp[at[m]].Loss = df[n].Loss
              /\ df[n].Provinces = <<"Maritimes">>
                    => [m \in DOMAIN at |-> df_exp[at[m]].ISO]
                          = <<"CA-NB", "CA-NS", "CA-PE">>
      /\ Len(df_exp) = SumSeq([n \in DOMAIN df |->
                                  Len(OfRow(df_exp, df[n].idx))])

\* C5 witness: one row whose two tokens reach the same code gave four records
C5_Witness ==
    /\ Normalized
    /\ Len(df) = 1
    /\ Len(parts(df[1].Provinces)) = 2
    /\ Len(df_exp) = 4
    /\ Cardinality({df_exp[n].ISO : n \in DOMAIN df_exp}) = 3

-----------------------------------------------------------------------------
(* C6 *)

RECURSIVE LossOver(_, _)
\* the sum of Loss over the records of d at the positions in S
LossOver(d, S) ==
    IF S = {} THEN 0
    ELSE LET n == CHOOSE m \in S : TRUE IN d[n].Loss + LossOver(d, S \ {n})

\* C6: the summary has exactly one row for each code that occurs among the
\* expanded records, none for any other code, and each TotalLoss is the sum
\* of Loss over the expanded records of that code.
C6_SummaryPerObservedCode ==
    Aggregated =>
      LET codes == {df_exp[n].ISO : n \in DOMAIN df_exp}
      IN /\ {prov_sum[n].ISO : n \in DOMAIN prov_sum} = codes
         /\ Len(prov_sum) = Cardinality(codes)
         /\ codes = UNION {Range(split_to_iso(df[n].Provinces).codes) :
                             n \in DOMAIN df}
         /\ \A n \in DOMAIN prov_sum :
               prov_sum[n].TotalLoss =
                  LossOver(df_exp, {m \in DOMAIN df_exp :
                                      df_exp[m].ISO = prov_sum[n].ISO})

\* C6 witness: a summary of some but not all codes, one of them summing the
\* losses of two rows
C6_Witness ==
    /\ Aggregated
    /\ Len(prov_sum) < Len(KeyOrder)
    /\ \E n \in DOMAIN prov_sum :
          prov_sum[n].ISO = "CA-ON" /\ prov_sum[n].TotalLoss = 35

-----------------------------------------------------------------------------
(* C7 *)

-----------------------------------------------------------------------------
(* C8 *)

\* the 13 codes of ISO 3166-2:CA
CanonicalCodes ==
    {"CA-AB", "CA-BC", "CA-MB", "CA-NB", "CA-NL", "CA-NS", "CA-NT", "CA-NU",
     "CA-ON", "CA-PE", "CA-QC", "CA-SK", "CA-YT"}

\* C8: the codes of region_map are exactly the 13 canonical codes, each has an
\* entry in iso_to_name, every summary row that passed the name resolver has
\* a name, and no run ends in UnmappedCodeError.
C8_EveryCodeHasAName ==
    /\ UNION {Range(region_map[t]) : t \in DOMAIN region_map} = CanonicalCodes
    /\ Cardinality(CanonicalCodes) = 13
    /\ CanonicalCodes \subseteq DOMAIN iso_to_name
    /\ outcome # "UnmappedCodeError"
    /\ (pc = "render" \/ outcome \in {"Rendered", "FetchError"})
       => \A n \in DOMAIN prov_sum :
             /\ prov_sum[n].prov_name # NaNStr
             /\ prov_sum[n].prov_name = iso_to_name[prov_sum[n].ISO]

\* C8 witness: a summary went through the name resolver
C8_Witness ==
    /\ pc = "render"
    /\ Len(prov_sum) = 3
    /\ \A n \in DOMAIN prov_sum : prov_sum[n].prov_name \notin {"", NaNStr}

-----------------------------------------------------------------------------
(* C9 *)

PrairiesSpellings == {"Prairies", "Priaries", "Priaires", "Praries", "Praires"}

\* the string s with every spelling of the grouping replaced by w
Respell(s, w) ==
    [n \in DOMAIN s |-> IF s[n] \in PrairiesSpellings THEN w ELSE s[n]]

\* the frame d with every Provinces cell respelled
RespellFrame(d, w) ==
    [n \in DOMAIN d |-> [d[n] EXCEPT !.Provinces = Respell(d[n].Provinces, w)]]

\* C9: every spelling of the grouping resolves to CA-AB, CA-SK, CA-MB, and
\* replacing the spellings in the rows leaves the ISO column, the expanded
\* records and the summary as they are.
C9_SpellingsAgree ==
    /\ \A w \in PrairiesSpellings :
          LET r == split_to_iso(<<w>>)
          IN r.ok /\ r.codes = <<"CA-AB", "CA-SK", "CA-MB">>
    /\ \A w \in PrairiesSpellings :
          LET d == RespellFrame(df, w)
              col == [n \in DOMAIN d |-> split_to_iso(d[n].Provinces).codes]
          IN /\ Filtered =>
                  \A n \in DOMAIN iso :
                     /\ split_to_iso(d[n].Provinces).ok
                     /\ iso[n] = col[n]
             /\ Normalized => Expanded(df_exp) = Expanded(explode(d, col))
             /\ Aggregated =>
                  /\ Len(prov_sum) = Len(groupby_sum(explode(d, col)))
                  /\ \A n \in DOMAIN prov_sum :
                        LET other == groupby_sum(explode(d, col))[n]
                        IN /\ prov_sum[n].ISO = other.ISO
                           /\ prov_sum[n].TotalLoss = other.TotalLoss

\* C9 witness: a summary of a row that spells the grouping wrongly
C9_Witness ==
    /\ Aggregated
    /\ \E n \in DOMAIN df :
          Range(df[n].Provinces) \cap (PrairiesSpellings \ {"Prairies"}) # {}

-----------------------------------------------------------------------------
(* C10 *)

StageRank(p) ==
    CASE p = "select" -> 0
      [] p = "prep" -> 1
      [] p = "filter" -> 2
      [] p = "empty_check" -> 3
      [] p = "normalize" -> 4
      [] p = "aggregate" -> 5
      [] p = "names" -> 6
      [] p = "render" -> 7
      [] p = "stopped" -> 8

\* the outcome a stage can stop the run with
StopOf(p) ==
    CASE p = "select" -> {"NoSelection"}
      [] p = "prep" -> {"SchemaError"}
      [] p = "empty_check" -> {"NoData"}
      [] p = "normalize" -> {"UnknownRegionError"}
      [] p = "names" -> {"UnmappedCodeError"}
      [] p = "render" -> {"Rendered", "FetchError"}
      [] OTHER -> {}

\* a step stays in its stage, moves to the next one or stops the run
StageStep ==
    /\ outcome = "running"
    /\ pc # "stopped"
    /\ \/ pc' = pc /\ outcome' = "running"
       \/ StageRank(pc') = StageRank(pc) + 1 /\ pc' # "stopped"
             /\ outcome' = "running"
       \/ pc' = "stopped" /\ outcome' \in StopOf(pc)

\* the state part of C10
StageInv ==
    /\ (pc = "stopped") = (outcome # "running")
    /\ pc \in {"select", "prep", "filter", "empty_check", "normalize",
               "aggregate", "names", "render", "stopped"}
    /\ pc = "prep" => i \in 1..(Len(df_list) + 1)
    /\ pc = "normalize" => k \in 1..(Len(df) + 1)
    /\ outcome = "UnknownRegionError"
       => \E n \in DOMAIN Unified :
             /\ Unified[n].Year \in Range(keep)
             /\ \E m \in UnknownTokens(Unified[n].Provinces) :
                   parts(Unified[n].Provinces)[m] = err.token
    /\ (pc = "stopped" /\ Loaded
           /\ \A n \in DOMAIN Unified : Unified[n].Year \notin Range(keep))
       => outcome = "NoData"

\* C10: the stages run in the order selection check, schema check, year
\* filter, empty check, normalization, aggregation, name resolution; a run
\* stops once, with one outcome; an unknown token in a row the year filter
\* excludes never causes UnknownRegionError, and a run whose filtered table is
\* empty ends in "no data" whatever tokens its rows carry.
C10_StageOrder == [](StageInv) /\ [][StageStep]_vars

\* C10 witness: a run was rendered although a row the filter excluded carries
\* an unknown token
C10_Witness ==
    /\ outcome = "Rendered"
    /\ \E n \in DOMAIN Unified : UnknownTokens(Unified[n].Provinces) # {}

====
